---- MODULE Spec2Model ----
(***************************************************************************)
(* Model of the roster data-access layer (package db, RedisService) of     *)
(* rollcall-server-go.  The Redis backend is a map from key strings to     *)
(* typed values; every Redis command is one atomic step, and a go-redis    *)
(* Pipeline is a sequence of such steps (it is not a MULTI/EXEC            *)
(* transaction).  Requests run concurrently in the slots of Procs.         *)
(***************************************************************************)
EXTENDS Integers, Sequences, FiniteSets, TLC

\* ---------------------------------------------------------------- bounds
NumProcs == 2
MaxCalls == 2
MaxRows  == 3
MaxImports == 1

Procs == 1..NumProcs

\* ------------------------------------------------------------ input sets
\* "b:students" makes getClassInfoKey("b:students") = getClassStudentsKey("b").
ClassIDs   == {"", "b", "c", "b:students"}
StudentIDs == {"", "s1", "s2"}
Names      == {"", "n1", "n2"}

\* -------------------------------------------------------------- key scheme
classesKey          == "classes"
classInfoPrefix     == "class:"
classStudentsPrefix == "class:"
studentInfoPrefix   == "student:"

getClassInfoKey(classID) == classInfoPrefix \o classID

getClassStudentsKey(classID) == (classStudentsPrefix \o classID) \o ":students"

getStudentInfoKey(studentID) == studentInfoPrefix \o studentID

\* The keys a request can touch: validation keeps empty IDs from the backend.
Keys ==
    {classesKey}
    \cup {getClassInfoKey(c) : c \in ClassIDs \ {""}}
    \cup {getClassStudentsKey(c) : c \in ClassIDs \ {""}}
    \cup {getStudentInfoKey(s) : s \in StudentIDs \ {""}}

\* ------------------------------------------------------------ models
Clazz(id, name) == [ID |-> id, Name |-> name]

Student(id, name, classID) == [ID |-> id, Name |-> name, ClassID |-> classID]

Absent == [absent |-> TRUE]

\* Arguments of the requests: every valid record, and records with one
\* field empty (one of them with an empty name and a class that may be unknown).
ClazzInputs ==
    {Clazz(id, name) : id \in ClassIDs \ {""}, name \in Names \ {""}}
    \cup {Clazz("", "n1"), Clazz("c", "")}

StudentInputs ==
    {Student(id, name, cid) : id \in StudentIDs \ {""}, name \in Names \ {""},
                              cid \in ClassIDs \ {""}}
    \cup {Student("", "n1", "b"), Student("s1", "", "c"), Student("s1", "n1", "")}

\* ------------------------------------------------- backend value and commands
\* A key holds nothing, a set of members, or a hash (a set of <<field, value>>).
NoValue == [t |-> "none", m |-> {}, h |-> {}]

Lookup(data, field) ==
    IF \E pr \in data : pr[1] = field
    THEN (CHOOSE pr \in data : pr[1] = field)[2]
    ELSE ""

\* Mutant of ClazzFields: the ID is stored as the name.
ClazzFieldsIdAsName(clazz) == {<<"id", clazz.ID>>, <<"name", clazz.ID>>}

ClazzFields(clazz) == {<<"id", clazz.ID>>, <<"name", clazz.Name>>}

StudentFields(student) ==
    {<<"id", student.ID>>, <<"name", student.Name>>, <<"classId", student.ClassID>>}

\* SADD key member: WRONGTYPE on a hash, otherwise the member is inserted.
SAdd(st, key, member) ==
    IF st[key].t = "hash"
    THEN [st |-> st, err |-> TRUE]
    ELSE [st |-> [st EXCEPT ![key] = [t |-> "set", m |-> @.m \cup {member}, h |-> {}]],
          err |-> FALSE]

\* Mutant of HMSet: fields already present are kept (HSETNX instead of HMSET).
HMSetKeepsOld(st, key, fields) ==
    IF st[key].t = "set"
    THEN [st |-> st, err |-> TRUE]
    ELSE [st |-> [st EXCEPT ![key] =
                    [t |-> "hash", m |-> {},
                     h |-> @.h \cup {nf \in fields : ~(\E pr \in @.h : pr[1] = nf[1])}]],
          err |-> FALSE]

\* HMSET key fields: WRONGTYPE on a set, otherwise the given fields are
\* overwritten and the other fields of the hash are kept.
HMSet(st, key, fields) ==
    IF st[key].t = "set"
    THEN [st |-> st, err |-> TRUE]
    ELSE [st |-> [st EXCEPT ![key] =
                    [t |-> "hash", m |-> {},
                     h |-> {pr \in @.h : ~(\E nf \in fields : nf[1] = pr[1])} \cup fields]],
          err |-> FALSE]

\* SISMEMBER key member
SIsMember(st, key, member) ==
    IF st[key].t = "hash"
    THEN [err |-> TRUE, val |-> FALSE]
    ELSE [err |-> FALSE, val |-> member \in st[key].m]

\* HGETALL key: the empty map for a missing key.
HGetAll(st, key) ==
    IF st[key].t = "set"
    THEN [err |-> TRUE, val |-> {}]
    ELSE [err |-> FALSE, val |-> st[key].h]

\* SRANDMEMBER key: the set of replies the backend may give; "nil" is redis.Nil.
SRandMember(st, key) ==
    CASE st[key].t = "hash" -> {[err |-> "store", val |-> ""]}
      [] st[key].t = "none" -> {[err |-> "nil", val |-> ""]}
      [] OTHER              -> {[err |-> "ok", val |-> sid] : sid \in st[key].m}

\* ------------------------------------------------------------------ state
\* store  : the Redis database
\* proc   : the request running in each slot (its arguments, locals, position)
\* calls  : number of requests begun
\* lastW  : per hash key, the argument of the last HMSET applied to it
\* failed : some backend command has failed (connection error or WRONGTYPE)
\* imports: number of import requests begun
VARIABLES store, proc, calls, lastW, failed, imports

vars == <<store, proc, calls, lastW, failed, imports>>

Idle ==
    [op |-> "idle", pc |-> "idle", stk |-> <<>>,
     clazz |-> Clazz("", ""), student |-> Student("", "", ""), classID |-> "",
     sid |-> "", src |-> [kind |-> "ok", rows |-> <<>>], toAdd |-> <<>>, i |-> 0,
     importedCount |-> 0, pipeErr |-> FALSE, err |-> "nil", res |-> Absent,
     solo |-> TRUE, created |-> FALSE, ensured |-> "pending", parsed |-> FALSE,
     submitted |-> <<>>, nsucc |-> 0, swrites |-> 0, n |-> 0]

EmptyStore == [k \in Keys |-> NoValue]

\* The store after startup seeding of one class with one student.
seedClass == Clazz("b", "n0")

seedStudent == Student("s1", "n0", "b")

seedInitialData ==
    LET s1 == SAdd(EmptyStore, classesKey, seedClass.ID).st
        s2 == HMSet(s1, getClassInfoKey(seedClass.ID), ClazzFields(seedClass)).st
        s3 == SAdd(s2, getClassStudentsKey(seedStudent.ClassID), seedStudent.ID).st
    IN HMSet(s3, getStudentInfoKey(seedStudent.ID), StudentFields(seedStudent)).st

\* Startup seeds the data only when it can be added; otherwise the store is empty.
Init ==
    /\ store \in {EmptyStore, seedInitialData}
    /\ proc = [p \in Procs |-> Idle]
    /\ calls = 0
    /\ lastW = [k \in Keys |->
                  IF store[k].t # "hash" THEN Absent
                  ELSE IF k = getClassInfoKey(seedClass.ID) THEN seedClass
                  ELSE seedStudent]
    /\ failed = FALSE
    /\ imports = 0

\* ----------------------------------------------------------- step helpers
\* Return from the current function to the caller's continuation.
Return(pr, e) == [pr EXCEPT !.pc = Head(pr.stk), !.stk = Tail(pr.stk), !.err = e]

\* A step of p that reads the backend or is local; f: a command failed.
Step(p, pr, f) ==
    /\ proc' = [proc EXCEPT ![p] = pr]
    /\ failed' = (failed \/ f)
    /\ UNCHANGED <<store, calls, lastW, imports>>

\* A step of p that sends a write command; requests in progress in the
\* other slots lose `solo`.
WriteStep(p, pr, st, f) ==
    /\ store' = st
    /\ failed' = (failed \/ f)
    /\ proc' = [q \in Procs |->
                  IF q = p THEN pr
                  ELSE IF proc[q].op # "idle" THEN [proc[q] EXCEPT !.solo = FALSE]
                  ELSE proc[q]]
    /\ UNCHANGED <<calls, imports>>

\* A slot is free when it has no request or its request has returned.
Free(q) == proc[q].pc \in {"idle", "done"}

\* A new request takes the first free slot; the result of the slot's previous
\* request has been delivered.
Begin(p, pr) ==
    /\ Free(p)
    /\ \A q \in Procs : q < p => ~Free(q)
    /\ calls < MaxCalls
    /\ calls' = calls + 1
    /\ proc' = [proc EXCEPT ![p] = pr]
    /\ imports' = IF pr.op = "Import" THEN imports + 1 ELSE imports
    /\ UNCHANGED <<store, lastW, failed>>

\* ------------------------------------------------------------- AddClass
AddClassValid(clazz) == ~(clazz.ID = "" \/ clazz.Name = "")

\* Entry of AddClass(clazz) with continuation ret: validation, then the pipeline.
EnterAddClass(pr, clazz, ret) ==
    IF ~AddClassValid(clazz)
    THEN [pr EXCEPT !.pc = ret, !.err = "validation"]
    ELSE [pr EXCEPT !.clazz = clazz, !.pc = "ac_sadd", !.stk = <<ret>> \o pr.stk,
                    !.pipeErr = FALSE]

CallAddClass(p) ==
    \E clazz \in ClazzInputs :
        Begin(p, EnterAddClass([Idle EXCEPT !.op = "AddClass", !.clazz = clazz],
                               clazz, "done"))

\* pipe.SAdd(classesKey, clazz.ID), first command of the pipeline; a
\* connection failure fails the whole Exec with nothing applied.
AcSAdd(p) ==
    /\ proc[p].pc = "ac_sadd"
    /\ \E ok \in BOOLEAN :
         IF ~ok
         THEN Step(p, Return(proc[p], "store"), TRUE)
         ELSE LET r == SAdd(store, classesKey, proc[p].clazz.ID)
              IN /\ WriteStep(p, [proc[p] EXCEPT !.pc = "ac_hmset", !.pipeErr = r.err],
                              r.st, r.err)
                 /\ UNCHANGED lastW

\* pipe.HMSet(classKey, {id, name}), second command; Exec reports the first error.
AcHMSet(p) ==
    /\ proc[p].pc = "ac_hmset"
    /\ LET key == getClassInfoKey(proc[p].clazz.ID)
           r == HMSet(store, key, ClazzFields(proc[p].clazz))
           e == IF proc[p].pipeErr \/ r.err THEN "store" ELSE "nil"
       IN /\ WriteStep(p, Return(proc[p], e), r.st, r.err)
          /\ lastW' = IF r.err THEN lastW ELSE [lastW EXCEPT ![key] = proc[p].clazz]

\* --------------------------------------------------------- GetClassByID
CallGetClassByID(p) ==
    \E id \in ClassIDs \ {""} :
        Begin(p, [Idle EXCEPT !.op = "GetClassByID", !.classID = id, !.pc = "gc_hgetall",
                              !.stk = <<"done">>])

GcHGetAll(p) ==
    /\ proc[p].pc = "gc_hgetall"
    /\ \E ok \in BOOLEAN :
         LET r == HGetAll(store, getClassInfoKey(proc[p].classID))
         IN IF ~ok \/ r.err
            THEN Step(p, Return(proc[p], "store"), TRUE)
            ELSE IF Cardinality(r.val) = 0
            THEN Step(p, Return(proc[p], "nil"), FALSE)
            ELSE Step(p, Return([proc[p] EXCEPT
                                   !.res = Clazz(Lookup(r.val, "id"), Lookup(r.val, "name"))],
                                "nil"), FALSE)

\* ------------------------------------------------------------- AddStudent
\* Mutant of AddStudentValid: the name is not checked.
AddStudentValidNoName(student) == ~(student.ID = "" \/ student.ClassID = "")

AddStudentValid(student) ==
    ~(student.ID = "" \/ student.Name = "" \/ student.ClassID = "")

EnterAddStudent(pr, student, ret) ==
    IF ~AddStudentValid(student)
    THEN [pr EXCEPT !.pc = ret, !.err = "validation"]
    ELSE [pr EXCEPT !.student = student, !.pc = "as_exists", !.stk = <<ret>> \o pr.stk]

CallAddStudent(p) ==
    \E student \in StudentInputs :
        Begin(p, EnterAddStudent([Idle EXCEPT !.op = "AddStudent", !.student = student],
                                 student, "done"))

\* Mutant of AsExists: the placeholder gets the import's class name.
AsExistsImportName(p) ==
    /\ proc[p].pc = "as_exists"
    /\ \E ok \in BOOLEAN :
         LET cid == proc[p].student.ClassID
             r == SIsMember(store, classesKey, cid)
         IN IF ~ok \/ r.err
            THEN Step(p, Return(proc[p], "store"), TRUE)
            ELSE IF r.val
            THEN Step(p, [proc[p] EXCEPT !.pc = "as_sadd"], FALSE)
            ELSE Step(p, EnterAddClass([proc[p] EXCEPT !.created = TRUE],
                                       Clazz(cid, "Imported Class " \o cid), "as_created"),
                      FALSE)

\* Mutant of AsExists: the class is created whether or not it exists.
AsExistsAlwaysCreates(p) ==
    /\ proc[p].pc = "as_exists"
    /\ \E ok \in BOOLEAN :
         LET cid == proc[p].student.ClassID
             r == SIsMember(store, classesKey, cid)
         IN IF ~ok \/ r.err
            THEN Step(p, Return(proc[p], "store"), TRUE)
            ELSE Step(p, EnterAddClass([proc[p] EXCEPT !.created = ~r.val],
                                       Clazz(cid, "Class " \o cid), "as_created"), FALSE)

\* exists, err := s.ClassExists(student.ClassID); auto-creation when absent.
AsExists(p) ==
    /\ proc[p].pc = "as_exists"
    /\ \E ok \in BOOLEAN :
         LET cid == proc[p].student.ClassID
             r == SIsMember(store, classesKey, cid)
         IN IF ~ok \/ r.err
            THEN Step(p, Return(proc[p], "store"), TRUE)
            ELSE IF r.val
            THEN Step(p, [proc[p] EXCEPT !.pc = "as_sadd"], FALSE)
            ELSE Step(p, EnterAddClass([proc[p] EXCEPT !.created = TRUE],
                                       Clazz(cid, "Class " \o cid), "as_created"), FALSE)

\* Back from the auto-creating AddClass.
AsCreated(p) ==
    /\ proc[p].pc = "as_created"
    /\ IF proc[p].err # "nil"
       THEN Step(p, Return(proc[p], "store"), FALSE)
       ELSE Step(p, [proc[p] EXCEPT !.pc = "as_sadd"], FALSE)

\* pipe.SAdd(classStudentsKey, student.ID)
AsSAdd(p) ==
    /\ proc[p].pc = "as_sadd"
    /\ \E ok \in BOOLEAN :
         IF ~ok
         THEN Step(p, Return(proc[p], "store"), TRUE)
         ELSE LET r == SAdd(store, getClassStudentsKey(proc[p].student.ClassID),
                            proc[p].student.ID)
              IN /\ WriteStep(p, [proc[p] EXCEPT !.pc = "as_hmset", !.pipeErr = r.err,
                                                 !.swrites = @ + 1],
                              r.st, r.err)
                 /\ UNCHANGED lastW

\* pipe.HMSet(studentKey, {id, name, classId})
AsHMSet(p) ==
    /\ proc[p].pc = "as_hmset"
    /\ LET key == getStudentInfoKey(proc[p].student.ID)
           r == HMSet(store, key, StudentFields(proc[p].student))
           e == IF proc[p].pipeErr \/ r.err THEN "store" ELSE "nil"
       IN /\ WriteStep(p, Return([proc[p] EXCEPT !.swrites = @ + 1,
                                                 !.nsucc = IF e = "nil" THEN @ + 1 ELSE @], e),
                       r.st, r.err)
          /\ lastW' = IF r.err THEN lastW ELSE [lastW EXCEPT ![key] = proc[p].student]

\* ------------------------------------------ GetStudentByID, GetRandomStudent
\* GetStudentByID(proc[p].sid), called by GetRandomStudent on its pick.
GsHGetAll(p) ==
    /\ proc[p].pc = "gs_hgetall"
    /\ \E ok \in BOOLEAN :
         LET r == HGetAll(store, getStudentInfoKey(proc[p].sid))
         IN IF ~ok \/ r.err
            THEN Step(p, Return(proc[p], "store"), TRUE)
            ELSE IF Cardinality(r.val) = 0
            THEN Step(p, Return(proc[p], "nil"), FALSE)
            ELSE Step(p, Return([proc[p] EXCEPT
                                   !.res = Student(Lookup(r.val, "id"), Lookup(r.val, "name"),
                                                   Lookup(r.val, "classId"))],
                                "nil"), FALSE)

CallGetRandomStudent(p) ==
    \E id \in ClassIDs \ {""} :
        Begin(p, [Idle EXCEPT !.op = "GetRandomStudent", !.classID = id, !.pc = "gr_srand",
                              !.stk = <<"done">>])

\* SRandMember on the class's student set, then GetStudentByID of the pick.
GrSRand(p) ==
    /\ proc[p].pc = "gr_srand"
    /\ \E ok \in BOOLEAN :
         \E r \in SRandMember(store, getClassStudentsKey(proc[p].classID)) :
            LET pr == [proc[p] EXCEPT
                         !.n = Cardinality(store[getClassStudentsKey(proc[p].classID)].m)]
            IN IF ~ok \/ r.err = "store"
               THEN Step(p, Return(pr, "store"), TRUE)
               ELSE IF r.err = "nil" \/ r.val = ""
               THEN Step(p, Return(pr, "nil"), FALSE)
               ELSE Step(p, [pr EXCEPT !.sid = r.val, !.pc = "gs_hgetall"], FALSE)

\* ----------------------------------------------- ImportStudentsFromExcel
\* The spreadsheet as the parsing library presents it: whether it opens
\* ("bad"), has a first sheet ("nosheet"), yields its rows ("rowserr"), and
\* the rows of the first sheet.  The first row is one that would pass the
\* row validation, so that discarding it can be observed.
headerRow == <<"s2", "n1">>

DataRows == {<<>>, <<"s1">>, <<"", "n1">>, <<"s1", "n1">>, <<"s2", "n2", "x">>}

RowSeqs ==
    {<<>>} \cup
    {<<headerRow>> \o r : r \in UNION {[1..n -> DataRows] : n \in 0..(MaxRows - 1)}}

Sources ==
    {[kind |-> "ok", rows |-> r] : r \in RowSeqs}
    \cup {[kind |-> k, rows |-> <<headerRow, <<"s1", "n1">>>>] :
            k \in {"bad", "nosheet", "rowserr"}}

\* The slots that serve import requests.
ImportSlots == {1}

\* The loop over rows building studentsToAdd; i is the 1-based row position.
RECURSIVE studentsToAdd(_, _, _, _)
studentsToAdd(rows, classID, i, acc) ==
    IF i > Len(rows) THEN acc
    ELSE LET row == rows[i]
             studentID == IF Len(row) > 0 THEN row[1] ELSE ""
             studentName == IF Len(row) > 1 THEN row[2] ELSE ""
         IN IF i = 1 THEN studentsToAdd(rows, classID, i + 1, acc)
            ELSE IF studentID = "" \/ studentName = ""
            THEN studentsToAdd(rows, classID, i + 1, acc)
            ELSE studentsToAdd(rows, classID, i + 1,
                               Append(acc, Student(studentID, studentName, classID)))

CallImport(p) ==
    /\ p \in ImportSlots
    /\ imports < MaxImports
    /\ \E src \in Sources, cid \in ClassIDs :
        Begin(p, [Idle EXCEPT !.op = "Import", !.src = src, !.classID = cid,
                              !.pc = "im_exists", !.stk = <<"done">>])

\* 1. Check if class exists (or create it)
ImExists(p) ==
    /\ proc[p].pc = "im_exists"
    /\ \E ok \in BOOLEAN :
         LET cid == proc[p].classID
             r == SIsMember(store, classesKey, cid)
         IN IF ~ok \/ r.err
            THEN Step(p, Return([proc[p] EXCEPT !.ensured = "failed"], "store"), TRUE)
            ELSE IF r.val
            THEN Step(p, [proc[p] EXCEPT !.pc = "im_parse", !.ensured = "ok"], FALSE)
            ELSE Step(p, EnterAddClass([proc[p] EXCEPT !.created = TRUE],
                                       Clazz(cid, "Imported Class " \o cid), "im_created"),
                      FALSE)

\* Back from the creating AddClass.
ImCreated(p) ==
    /\ proc[p].pc = "im_created"
    /\ IF proc[p].err # "nil"
       THEN Step(p, Return([proc[p] EXCEPT !.ensured = "failed"], "store"), FALSE)
       ELSE Step(p, [proc[p] EXCEPT !.pc = "im_parse", !.ensured = "ok"], FALSE)

\* Mutant of ImParse: the error of GetRows is not checked.
ImParseIgnoresRowsErr(p) ==
    /\ proc[p].pc = "im_parse"
    /\ IF proc[p].src.kind \in {"bad", "nosheet"}
       THEN Step(p, Return([proc[p] EXCEPT !.parsed = TRUE], "format"), FALSE)
       ELSE Step(p, [proc[p] EXCEPT
                       !.parsed = TRUE,
                       !.toAdd = studentsToAdd(proc[p].src.rows, proc[p].classID, 1, <<>>),
                       !.i = 1, !.importedCount = 0, !.pc = "im_loop"], FALSE)

\* OpenReader, GetSheetName(0), GetRows and the loop over the rows.
ImParse(p) ==
    /\ proc[p].pc = "im_parse"
    /\ IF proc[p].src.kind # "ok"
       THEN Step(p, Return([proc[p] EXCEPT !.parsed = TRUE], "format"), FALSE)
       ELSE Step(p, [proc[p] EXCEPT
                       !.parsed = TRUE,
                       !.toAdd = studentsToAdd(proc[p].src.rows, proc[p].classID, 1, <<>>),
                       !.i = 1, !.importedCount = 0, !.pc = "im_loop"], FALSE)

\* for _, student := range studentsToAdd { err := s.AddStudent(student) ...
ImLoop(p) ==
    /\ proc[p].pc = "im_loop"
    /\ IF proc[p].i > Len(proc[p].toAdd)
       THEN Step(p, Return(proc[p], "nil"), FALSE)
       ELSE LET student == proc[p].toAdd[proc[p].i]
            IN Step(p, EnterAddStudent([proc[p] EXCEPT !.submitted = Append(@, student)],
                                       student, "im_added"), FALSE)

\* Mutant of ImAdded: failed submissions are counted too.
ImAddedCountsAll(p) ==
    /\ proc[p].pc = "im_added"
    /\ Step(p, [proc[p] EXCEPT !.importedCount = @ + 1,
                               !.i = @ + 1, !.err = "nil", !.pc = "im_loop"], FALSE)

\* ... if err != nil { continue }; importedCount++ }
ImAdded(p) ==
    /\ proc[p].pc = "im_added"
    /\ Step(p, [proc[p] EXCEPT
                  !.importedCount = IF proc[p].err = "nil" THEN @ + 1 ELSE @,
                  !.i = @ + 1, !.err = "nil", !.pc = "im_loop"], FALSE)

Next ==
    \E p \in Procs :
        \/ CallAddClass(p) \/ AcSAdd(p) \/ AcHMSet(p)
        \/ CallGetClassByID(p) \/ GcHGetAll(p)
        \/ CallAddStudent(p) \/ AsExists(p) \/ AsCreated(p) \/ AsSAdd(p) \/ AsHMSet(p)
        \/ CallGetRandomStudent(p) \/ GrSRand(p) \/ GsHGetAll(p)

Spec == Init /\ [][Next]_vars

\* An import request in its slot, with AddClass requests running beside it.
\* AsCreated is left out: the AddStudent calls of an import find the class in
\* the global set, which the import has ensured and which never shrinks.
NextImport ==
    \E p \in Procs :
        \/ CallImport(p) \/ ImExists(p) \/ ImCreated(p) \/ ImParse(p)
        \/ ImLoop(p) \/ ImAdded(p)
        \/ AsExists(p) \/ AsSAdd(p) \/ AsHMSet(p)
        \/ CallAddClass(p) \/ AcSAdd(p) \/ AcHMSet(p)

SpecImport == Init /\ [][NextImport]_vars

\* ===================================================================
\* Properties
\* ===================================================================
NoWriteInFlight == \A p \in Procs : proc[p].pc \in {"idle", "done"}

RealClassIDs == ClassIDs \ {""}

RealStudentIDs == StudentIDs \ {""}

\* The student IDs registered under class cid.
StudentSet(cid) == store[getClassStudentsKey(cid)].m

\* The record stored for a student or a class, read field by field.
StudentRecord(sid) ==
    LET h == store[getStudentInfoKey(sid)].h
    IN IF h = {} THEN Absent
       ELSE Student(Lookup(h, "id"), Lookup(h, "name"), Lookup(h, "classId"))

ClassRecord(cid) ==
    LET h == store[getClassInfoKey(cid)].h
    IN IF h = {} THEN Absent ELSE Clazz(Lookup(h, "id"), Lookup(h, "name"))

ClassSet == store[classesKey].m

\* C1: when no write is in flight and no backend command has failed, every
\* student ID in a class's student set has a record whose classId is that class.
C1_StudentIndexConsistent ==
    (NoWriteInFlight /\ ~failed) =>
        \A cid \in RealClassIDs : \A sid \in StudentSet(cid) :
            /\ StudentRecord(sid) # Absent
            /\ StudentRecord(sid).ClassID = cid

\* C2: in every state a concurrent reader can observe, a class ID is in the
\* global class set exactly when its class record exists, and a student ID is
\* in some class's student set exactly when its student record exists (a
\* registration, failed or not, is never half applied).
C2_AtomicRegistration ==
    /\ \A cid \in RealClassIDs : (cid \in ClassSet) <=> (ClassRecord(cid) # Absent)
    /\ \A sid \in RealStudentIDs :
         (\E cid \in RealClassIDs : sid \in StudentSet(cid)) <=> (StudentRecord(sid) # Absent)

\* C3: a GetRandomStudent(C) that met no backend failure returns a student of
\* class C when the student set held N >= 1 IDs, and the absent result with no
\* error when it held none.
C3_RandomStudentOfClass ==
    \A p \in Procs :
        (proc[p].op = "GetRandomStudent" /\ proc[p].pc = "done" /\ ~failed) =>
            IF proc[p].n >= 1
            THEN /\ proc[p].err = "nil"
                 /\ proc[p].res # Absent
                 /\ proc[p].res.ClassID = proc[p].classID
            ELSE proc[p].err = "nil" /\ proc[p].res = Absent

\* C4: an AddStudent(s) that found the class missing and returned nil, with no
\* other request writing meanwhile, leaves the class in the global set with
\* the record {id, "Class " + id}, the student record equal to s, and s.id in
\* the class's student set.
C4_AutoCreation ==
    \A p \in Procs :
        (/\ proc[p].op = "AddStudent" /\ proc[p].pc = "done" /\ proc[p].err = "nil"
         /\ proc[p].created /\ proc[p].solo) =>
            LET s == proc[p].student
            IN /\ s.ClassID \in ClassSet
               /\ ClassRecord(s.ClassID) = Clazz(s.ClassID, "Class " \o s.ClassID)
               /\ StudentRecord(s.ID) = s
               /\ s.ID \in StudentSet(s.ClassID)

C4_Witness ==
    \E p \in Procs :
        /\ proc[p].op = "AddStudent" /\ proc[p].pc = "done" /\ proc[p].err = "nil"
        /\ proc[p].created /\ proc[p].solo
        /\ ClassRecord(proc[p].student.ClassID).Name = "Class " \o proc[p].student.ClassID

\* C5: the student record of an ID is always exactly the record passed by the
\* AddStudent call whose record write was applied last: never a mix of two calls.
C5_LastWriteWins ==
    \A sid \in RealStudentIDs :
        StudentRecord(sid) = lastW[getStudentInfoKey(sid)]

\* Two overlapping AddStudent calls for one ID with different names and classes.
C5_Witness ==
    \E p, q \in Procs :
        /\ p # q
        /\ proc[p].op = "AddStudent" /\ proc[q].op = "AddStudent"
        /\ proc[p].pc = "done" /\ proc[q].pc = "done"
        /\ proc[p].err = "nil" /\ proc[q].err = "nil"
        /\ ~proc[p].solo /\ ~proc[q].solo
        /\ proc[p].student.ID = proc[q].student.ID
        /\ proc[p].student.Name # proc[q].student.Name
        /\ proc[p].student.ClassID # proc[q].student.ClassID
        /\ StudentRecord(proc[p].student.ID) = proc[p].student

\* C6: a GetClassByID(id) that returned without error, with no other request
\* writing meanwhile, returns the record passed by the last AddClass applied
\* to that ID.
C6_AddGetRoundTrip ==
    \A p \in Procs :
        (/\ proc[p].op = "GetClassByID" /\ proc[p].pc = "done" /\ proc[p].err = "nil"
         /\ proc[p].solo /\ lastW[getClassInfoKey(proc[p].classID)] # Absent) =>
            proc[p].res = lastW[getClassInfoKey(proc[p].classID)]

\* The seeded class "b" (name "n0") was overwritten by an AddClass and fetched.
C6_Witness ==
    \E p \in Procs :
        /\ proc[p].op = "GetClassByID" /\ proc[p].pc = "done" /\ proc[p].err = "nil"
        /\ proc[p].solo /\ proc[p].classID = seedClass.ID
        /\ lastW[getStudentInfoKey(seedStudent.ID)] = seedStudent
        /\ proc[p].res = Clazz(seedClass.ID, "n1")

\* C7: a request whose AddClass or AddStudent argument has an empty field
\* completes in its first step with a validation error and the store unchanged.
C7_ValidationNoBackend ==
    [][\A p \in Procs :
         (/\ proc[p].op = "idle"
          /\ \/ /\ proc'[p].op = "AddClass"
                /\ (proc'[p].clazz.ID = "" \/ proc'[p].clazz.Name = "")
             \/ /\ proc'[p].op = "AddStudent"
                /\ (proc'[p].student.ID = "" \/ proc'[p].student.Name = ""
                    \/ proc'[p].student.ClassID = ""))
         => (/\ store' = store
             /\ proc'[p].pc = "done"
             /\ proc'[p].err = "validation"
             /\ ~proc'[p].created)]_vars

\* AddStudent with an empty name and an unknown class was rejected, class still unknown.
C7_Witness ==
    \E p \in Procs :
        /\ proc[p].op = "AddStudent" /\ proc[p].pc = "done"
        /\ proc[p].student.Name = "" /\ proc[p].student.ClassID \notin ClassSet
        /\ proc[p].err = "validation"
        /\ ClassRecord(proc[p].student.ClassID) = Absent

\* What an import of rows into classID has to submit: the rows after the
\* first that have a non-empty column 0 and column 1, in order.
RowHasIdAndName(row) == Len(row) >= 2 /\ row[1] # "" /\ row[2] # ""

DataRowsOf(rows) == IF Len(rows) = 0 THEN <<>> ELSE SubSeq(rows, 2, Len(rows))

ExpectedSubmissions(rows, classID) ==
    LET kept == SelectSeq(DataRowsOf(rows), RowHasIdAndName)
    IN [k \in 1..Len(kept) |-> Student(kept[k][1], kept[k][2], classID)]

SkippedRows(rows) ==
    Len(DataRowsOf(rows)) - Len(SelectSeq(DataRowsOf(rows), RowHasIdAndName))

\* C8: an Import that parsed its source has submitted exactly the valid data
\* rows, once each and in order, under its classId; importedCount is the number
\* of submissions that succeeded; and when all did, importedCount is the data
\* rows minus the skipped rows and every submitted student is in the class's
\* student set with a record of that class.
C8_ImportCount ==
    \A p \in Procs :
        (proc[p].op = "Import" /\ proc[p].pc = "done" /\ proc[p].err = "nil") =>
            LET rows == proc[p].src.rows
                cid == proc[p].classID
            IN /\ proc[p].submitted = ExpectedSubmissions(rows, cid)
               /\ proc[p].importedCount = proc[p].nsucc
               /\ (proc[p].nsucc = Len(proc[p].submitted)) =>
                    /\ proc[p].importedCount = Len(DataRowsOf(rows)) - SkippedRows(rows)
                    /\ \A k \in 1..Len(proc[p].submitted) :
                         LET s == proc[p].submitted[k]
                         IN /\ s.ID \in StudentSet(cid)
                            /\ StudentRecord(s.ID) # Absent
                            /\ StudentRecord(s.ID).ID = s.ID
                            /\ StudentRecord(s.ID).ClassID = cid

\* An import of a header, a valid row, a skipped row: one of one submission failed.
C8_Witness ==
    \E p \in Procs :
        /\ proc[p].op = "Import" /\ proc[p].pc = "done" /\ proc[p].err = "nil"
        /\ Len(proc[p].src.rows) = 3
        /\ SkippedRows(proc[p].src.rows) = 1
        /\ Len(proc[p].submitted) = 1
        /\ proc[p].importedCount = 0

\* Header and two valid rows, no failure: importedCount = 2.
C8_WitnessAll ==
    \E p \in Procs :
        /\ proc[p].op = "Import" /\ proc[p].pc = "done" /\ proc[p].err = "nil"
        /\ Len(proc[p].src.rows) = 3
        /\ proc[p].importedCount = 2

\* C9: an Import whose source does not open, has no first sheet or does not
\* yield its rows returns (0, error), a format error once the class is
\* ensured, and has submitted nothing and sent no student write.
C9_FormatFailureFirst ==
    \A p \in Procs :
        (proc[p].op = "Import" /\ proc[p].pc = "done" /\ proc[p].src.kind # "ok") =>
            /\ proc[p].err # "nil"
            /\ proc[p].ensured = "ok" => proc[p].err = "format"
            /\ proc[p].importedCount = 0
            /\ proc[p].submitted = <<>>
            /\ proc[p].swrites = 0

C9_Witness ==
    \E p \in Procs :
        /\ proc[p].op = "Import" /\ proc[p].pc = "done"
        /\ proc[p].src.kind = "rowserr" /\ Len(proc[p].src.rows) >= 2
        /\ proc[p].err = "format"

\* C10: an Import, with no other request writing meanwhile or in flight,
\* parses only after the class is ensured; when the existence check and the
\* creation did not fail, the class is in the global class set with a record
\* when Import returns; when one of them failed, Import returns (0, error)
\* without parsing.
C10_ImportEnsuresClass ==
    \A p \in Procs :
        (proc[p].op = "Import" /\ proc[p].pc = "done" /\ proc[p].solo /\ NoWriteInFlight) =>
            /\ proc[p].parsed => proc[p].ensured = "ok"
            /\ proc[p].ensured = "ok" =>
                 /\ proc[p].classID \in ClassSet
                 /\ ClassRecord(proc[p].classID) # Absent
            /\ proc[p].ensured = "failed" =>
                 /\ proc[p].importedCount = 0
                 /\ proc[p].err # "nil"
                 /\ ~proc[p].parsed

\* The class and student IDs that the store or a request in a slot holds.
ClassIDsInUse ==
    (ClassSet
     \cup {proc[p].clazz.ID : p \in Procs}
     \cup {proc[p].student.ClassID : p \in Procs}
     \cup {proc[p].classID : p \in Procs}) \ {""}

StudentIDsInUse ==
    (UNION {StudentSet(cid) : cid \in RealClassIDs}
     \cup {proc[p].student.ID : p \in Procs}
     \cup {proc[p].sid : p \in Procs}) \ {""}

\* C11: for the non-empty class IDs a, b and student IDs s, t in use, the
\* global class-set key, the class record key of a, the student-set key of b
\* and the student record key of s are pairwise distinct, and two keys of one
\* kind are equal only for equal IDs.
C11_KeysNeverCollide ==
    /\ \A a \in ClassIDsInUse, b \in ClassIDsInUse :
        /\ getClassInfoKey(a) # classesKey
        /\ getClassStudentsKey(b) # classesKey
        /\ getClassInfoKey(a) # getClassStudentsKey(b)
        /\ (a # b) => /\ getClassInfoKey(a) # getClassInfoKey(b)
                      /\ getClassStudentsKey(a) # getClassStudentsKey(b)
    /\ \A s \in StudentIDsInUse, t \in StudentIDsInUse :
        /\ getStudentInfoKey(s) # classesKey
        /\ (s # t) => getStudentInfoKey(s) # getStudentInfoKey(t)
        /\ \A a \in ClassIDsInUse :
            /\ getClassInfoKey(a) # getStudentInfoKey(s)
            /\ getClassStudentsKey(a) # getStudentInfoKey(s)

\* The placeholder names of the auto-created class cid.
PlaceholderNames(cid) == {"Class " \o cid, "Imported Class " \o cid}

\* The class whose existence request p ensures, and the placeholder it creates.
EnsuredClassID(p) ==
    IF proc[p].op = "Import" THEN proc[p].classID ELSE proc[p].student.ClassID

PlaceholderOf(p) ==
    Clazz(EnsuredClassID(p),
          (IF proc[p].op = "Import" THEN "Imported Class " ELSE "Class ")
              \o EnsuredClassID(p))

\* Request p sends the HMSET of its auto-creating AddClass in this step.
AutoCreateWrites(p) ==
    /\ proc[p].op \in {"AddStudent", "Import"}
    /\ proc[p].pc = "ac_hmset"
    /\ proc[p]'.pc # "ac_hmset"

\* C12 (as claimed): a class record that holds a name other than the
\* placeholder is never overwritten with the placeholder name.
C12_NeverOverwrites ==
    [][\A cid \in RealClassIDs :
         (/\ ClassRecord(cid) # Absent
          /\ ClassRecord(cid).Name \notin PlaceholderNames(cid))
         => ~(/\ ClassRecord(cid)' # Absent
              /\ ClassRecord(cid)'.Name \in PlaceholderNames(cid))]_vars

\* C12 (amended): the auto-creation of AddStudent or Import writes the
\* placeholder only after the request's own ClassExists found the class absent
\* from the global class set; if no other request wrote since the request
\* began, the class record is still absent at the write; otherwise the write
\* replaces whatever record is there (last write wins).
C12_PlaceholderAfterOwnCheck ==
    [][\A p \in Procs :
         AutoCreateWrites(p) =>
            LET cid == EnsuredClassID(p)
            IN /\ proc[p].created
               /\ proc[p].clazz = PlaceholderOf(p)
               /\ proc[p].solo => ClassRecord(cid) = Absent
               /\ store[getClassInfoKey(cid)].t # "set"
                    => ClassRecord(cid)' = PlaceholderOf(p)]_vars

\* An AddStudent that found class C absent and an AddClass for C have both
\* returned without error, and the record of C holds the placeholder.
C12_Witness ==
    \E p \in Procs, q \in Procs :
        /\ proc[p].op = "AddStudent" /\ proc[p].pc = "done" /\ proc[p].err = "nil"
        /\ proc[p].created
        /\ proc[q].op = "AddClass" /\ proc[q].pc = "done" /\ proc[q].err = "nil"
        /\ proc[q].clazz.ID = proc[p].student.ClassID
        /\ ClassRecord(proc[q].clazz.ID) = PlaceholderOf(p)

====
